---- MODULE Spec2Model ----
(***************************************************************************)
(* Model of the inbox-nuke run orchestrator: the CleanupRun state machine  *)
(* (routers/runs.py), the APScheduler job layer (agent/scheduler.py) and   *)
(* the CleanupAgent worker loop (agent/runner.py), together with the       *)
(* sender guardrail (agent/safety.py) and the per-sender effects.          *)
(*                                                                         *)
(* The worker holds its own SQLAlchemy session: `worker[r]` carries the    *)
(* in-memory copy of the run row and which of its columns are dirty.       *)
(* commit() writes only the dirty columns; refresh() expires the object    *)
(* (dropping unflushed changes) and reloads every column from the store.   *)
(***************************************************************************)
EXTENDS Integers, Sequences, FiniteSets, Bags, TLC

\* ------------------------------------------------------------------ bounds
MaxRuns     == 2      \* runs that createRun may insert
NumSenders  == 11     \* distinct senders the mailbox can hold
MaxPauses   == 1      \* accepted pause requests over a behaviour
NumClients  == 2      \* concurrent createRun requests
MaxFaults   == 1      \* remote-call and store failures injected over a behaviour

\* ------------------------------------------------------- program constants
CommitEvery    == 10  \* runner.py:180  (index + 1) % 10 == 0
AggressiveDays == 7   \* runner.py:607
StandardDays   == 30  \* runner.py:609

RunIds   == 1..MaxRuns
Senders  == 1..NumSenders
NoCursor == -1        \* progress_cursor IS NULL

ActiveStatuses   == {"pending", "running", "paused"}
TerminalStatuses == {"completed", "cancelled", "failed"}

\* ------------------------------------------------------- sender catalogue
\* The mailbox the model runs against.  Senders 1 and 3 are ordinary bulk
\* senders, sender 2 is the bank of the end-to-end scenario, sender 4 is
\* kept by a sender-domain retention rule, and every later sender is
\* protected by one of the three guardrail checks in turn (allow-list,
\* address pattern, protected domain).
Email(s) ==
  CASE s = 1 -> "promo@shop.example"
    [] s = 2 -> "alerts@chase.com"
    [] s = 3 -> "digest@blog.example"
    [] s = 4 -> "billing@interac.ca"
    [] OTHER -> CASE s % 3 = 2 -> "news@ally.example"
                  [] s % 3 = 0 -> "security@corp.com"
                  [] OTHER     -> "statements@chase.com"

DomainOf(s) ==
  CASE s = 1 -> "shop.example"
    [] s = 2 -> "chase.com"
    [] s = 3 -> "blog.example"
    [] s = 4 -> "interac.ca"
    [] OTHER -> CASE s % 3 = 2 -> "ally.example"
                  [] s % 3 = 0 -> "corp.com"
                  [] OTHER     -> "chase.com"

\* WhitelistDomain rows (the user's allow-list)
WhitelistDomains == {"ally.example"}
\* the members of PROTECTED_DOMAINS that occur in the catalogue
ProtectedDomains == {"chase.com"}

HasListUnsubscribe(s) == s \in {1, 3} \/ (s > 4 /\ s % 2 = 0)
MessageCount(s)       == IF s <= 4 THEN 5 - s ELSE s

\* messages of the mailbox: <<sender, n>>
Messages == {<<s, n>> : s \in {1, 2, 3}, n \in 1..3}
IsConversation(m) == m[2] = 1          \* flagged by get_emails_with_thread_info
AgeDays(m)        == IF m[2] = 3 THEN 3 ELSE 40
SubjectOf(m)      == IF m[2] = 2 /\ m[1] = 3 THEN "your invoice" ELSE "50% off"

\* ---------------------------------------------------------- safety.py
\* is_junk_sender: JUNK_SENDER_PATTERNS anchored at the local part
is_junk_sender(s) == Email(s) \in {"promo@shop.example", "news@ally.example"}

is_whitelisted(s) == DomainOf(s) \in WhitelistDomains

matches_protected_sender_pattern(s) == Email(s) \in {"security@corp.com", "alerts@chase.com"}

is_protected_domain(s) == DomainOf(s) \in ProtectedDomains

\* check_sender_safety: first matching check wins
check_sender_safety(s) ==
  IF is_whitelisted(s)
    THEN [is_safe |-> FALSE, check |-> "whitelisted"]
  ELSE IF matches_protected_sender_pattern(s)
    THEN [is_safe |-> FALSE, check |-> "important_sender"]
  ELSE IF is_protected_domain(s)
    THEN [is_safe |-> FALSE, check |-> "protected_domain"]
  ELSE [is_safe |-> TRUE, check |-> "safe"]

\* ---------------------------------------------------------- retention.py
\* RetentionEngine.evaluate on the sender-level facts built by
\* _process_sender (empty subject, no labels, not a conversation): of the
\* default rules only the SENDER_DOMAIN rules can match.
SenderLevelRetention(s) ==
  IF DomainOf(s) = "interac.ca" THEN "KEEP" ELSE "REVIEW"

\* RetentionEngine.evaluate on the per-message facts built by the deletion
\* step: subject rules of priority >= 90 answer KEEP, discount language DELETE
MessageLevelRetention(m) ==
  IF DomainOf(m[1]) = "interac.ca" THEN "KEEP"
  ELSE IF SubjectOf(m) = "your invoice" THEN "KEEP"
  ELSE IF SubjectOf(m) = "50% off" THEN "DELETE"
  ELSE "REVIEW"


\* per-message filter of _delete_emails_from_sender_with_retention
\* (runner.py:625-681): a conversation-flagged message is kept first, then
\* a message whose retention verdict is KEEP; everything else is selected.
\* The message's own age is never compared with the cutoff.
EmailsToDelete(s) ==
  {m \in Messages : m[1] = s /\ ~IsConversation(m) /\ MessageLevelRetention(m) # "KEEP"}

\* age threshold chosen at runner.py:606-609
OlderThanDays(s) ==
  IF is_junk_sender(s) \/ HasListUnsubscribe(s) THEN AggressiveDays ELSE StandardDays

\* a module in which the name is bound
TimedeltaBound == TRUE

\* runner.py imports only `datetime` from datetime (runner.py:16); the name
\* `timedelta` used at runner.py:623 is unbound in the module.
TimedeltaImported == FALSE

\* a deletion step whose cutoff computation succeeds
DeleteEmailsWithCutoff(s) == EmailsToDelete(s)

\* age-only selection, as in _delete_emails_from_sender (runner.py:535-584):
\* no conversation check and no retention check
DeleteEmailsByAgeOnly(s) ==
  {m \in Messages : m[1] = s /\ AgeDays(m) > OlderThanDays(s)}

\* _delete_emails_from_sender_with_retention as a whole: the set of message
\* ids handed to trash_messages.  Evaluating runner.py:623 raises NameError,
\* which the function's outer handler (runner.py:695-697) turns into (0, 0).
DeleteEmailsFromSenderWithRetention(s) ==
  IF TimedeltaImported THEN EmailsToDelete(s) ELSE {}

\* skip decided by the retention verdict alone, guardrail verdict ignored
ShouldSkipRetentionOnly(s) ==
  SenderLevelRetention(s) = "KEEP"

\* _process_sender, steps 1-2 (runner.py:390-428): skip on a guardrail
\* verdict "not safe" or on a sender-level retention verdict KEEP
ShouldSkip(s) ==
  ~check_sender_safety(s).is_safe \/ SenderLevelRetention(s) = "KEEP"

\* ---------------------------------------------------------- runner.py
\* a key that ranks unsubscribe capability above the junk pattern
sender_priority_unsubscribe_first(s) ==
  << IF HasListUnsubscribe(s) THEN -1 ELSE 0,
     IF is_junk_sender(s) THEN -1 ELSE 0,
     0 - MessageCount(s) >>

\* sender_priority (runner.py:335-346): ascending sort on this key
sender_priority(s) ==
  << IF is_junk_sender(s) THEN -1 ELSE 0,
     IF HasListUnsubscribe(s) THEN -1 ELSE 0,
     0 - MessageCount(s) >>

KeyLess(a, b) ==
  \/ a[1] < b[1]
  \/ a[1] = b[1] /\ a[2] < b[2]
  \/ a[1] = b[1] /\ a[2] = b[2] /\ a[3] < b[3]

\* list.sort is stable; rows come back in primary-key order
Before(s, t) ==
  \/ KeyLess(sender_priority(s), sender_priority(t))
  \/ ~KeyLess(sender_priority(t), sender_priority(s)) /\ s < t

RECURSIVE SortSenders(_)
SortSenders(S) ==
  IF S = {} THEN << >>
  ELSE LET first == CHOOSE s \in S : \A t \in S \ {s} : Before(s, t)
       IN  <<first>> \o SortSenders(S \ {first})

\* _load_senders (runner.py:313-349)
LoadSendersList(table) == SortSenders(table)

\* start offset that ignores the cursor
StartIndexZero(cursor) == 0

\* start offset read from the cursor (runner.py:143-151)
StartIndex(cursor) == IF cursor = NoCursor THEN 0 ELSE cursor

\* progress counted from the start of the current pass
ProgressValueRelative(index, start) == index + 1 - start

\* value written to senders_processed (runner.py:168)
ProgressValue(index, start) == index + 1

\* a sender whose processing raised is logged like any other
ActionTypeNoError(skip, raised) ==
  IF skip THEN "skip" ELSE "delete"

\* action_type of the row logged for a sender: skip (runner.py:394-400,
\* 422-428), error from the per-sender handler (runner.py:187-195), else
\* delete (runner.py:469-470)
ActionType(skip, raised) ==
  IF skip THEN "skip" ELSE IF raised THEN "error" ELSE "delete"

\* periodic commit (runner.py:180)
CommitDue(index) == (index + 1) % CommitEvery = 0

\* a poll that reacts to cancelled only
ShouldStopOnCancelOnly(status) == status = "cancelled"

\* _check_should_stop verdict on the refreshed row (runner.py:363)
ShouldStop(status) == status \in {"paused", "cancelled"}

\* a job added whatever the stored status is
ScheduleCleanupRunAnyStatus(r, status, js) == js \cup {r}

\* schedule_cleanup_run (scheduler.py:151-219): the job is added only for a
\* pending or paused run; add_job(replace_existing=True) keeps one job per id
ScheduleCleanupRun(r, status, js) ==
  IF status \in {"pending", "paused"} THEN js \cup {r} ELSE js

\* _cancel_run_impl guard (runs.py:372)
CancelAllowed(status) == status \notin {"completed", "cancelled"}

\* ------------------------------------------- guardrail on addresses and text
\* Addresses as they arrive in a From header: local part and domain.
Locals  == {"promo", "security"}
Domains == {"shop.example", "Shop.Example", "chase.com", "corp.com"}
Addresses == [local : Locals, domain : Domains]

\* str.lower on the domains above
LowerDomain(d) == IF d = "Shop.Example" THEN "shop.example" ELSE d

\* domains a WhitelistDomain row can hold (stored lower-case, whitelist.py:91)
WhitelistChoices == {LowerDomain(d) : d \in Domains}

\* extract_domain (safety.py:524-540)
extract_domain(a) == LowerDomain(a.domain)

\* is_whitelisted (safety.py:431-457): the SELECT on whitelist_domains; an
\* exception from execute is logged and answered with False
is_whitelisted_in(domain, rows, db_error) ==
  IF db_error THEN FALSE ELSE LowerDomain(domain) \in rows

\* PROTECTED_SENDER_PATTERNS (safety.py:170-181) on the addresses above:
\* security@.*\.com is the one pattern that can match
matches_protected_sender_pattern_of(a) ==
  a.local = "security" /\ LowerDomain(a.domain) \in {"chase.com", "corp.com"}

\* is_protected_domain (safety.py:371-408): chase.com is in PROTECTED_DOMAINS
is_protected_domain_of(domain) == LowerDomain(domain) \in ProtectedDomains

\* check_sender_safety (safety.py:543-599) on an address and the allow-list
\* rows: allow-list, then address patterns, then protected domains
check_sender_safety_of(a, rows, db_error) ==
  IF is_whitelisted_in(extract_domain(a), rows, db_error)
    THEN [is_safe |-> FALSE, check |-> "whitelisted"]
  ELSE IF matches_protected_sender_pattern_of(a)
    THEN [is_safe |-> FALSE, check |-> "important_sender"]
  ELSE IF is_protected_domain_of(extract_domain(a))
    THEN [is_safe |-> FALSE, check |-> "protected_domain"]
  ELSE [is_safe |-> TRUE, check |-> "safe"]

\* Text is a sequence of characters.
Alphabet == {"t", "a", "x", "T", " "}
MaxSubjectLen == 4    \* longest subject offered to the message check
Texts(n) == UNION {[1..k -> Alphabet] : k \in 0..n}

\* the member of PROTECTED_KEYWORDS (safety.py:29-100) spelled with the alphabet
ProtectedKeywords == {<<"t", "a", "x">>}

\* str.lower and re.IGNORECASE on a character
LowerChar(c) == IF c = "T" THEN "t" ELSE c

\* \w of the regular expression
IsWordChar(c) == c # " "

\* \b at the gap after position p (p = 0: before the first character)
WordBoundary(text, p) ==
  LET w(q) == q >= 1 /\ q <= Len(text) /\ IsWordChar(text[q])
  IN  w(p) # w(p + 1)

\* keyword found at position i, case ignored
KeywordAt(text, kw, i) ==
  /\ i + Len(kw) - 1 <= Len(text)
  /\ \A j \in 1..Len(kw) : LowerChar(text[i + j - 1]) = kw[j]

\* search without re.IGNORECASE: the keyword in lower case only
contains_protected_keyword_exact_case(text) ==
  \E kw \in ProtectedKeywords : \E i \in 1..Len(text) :
    /\ i + Len(kw) - 1 <= Len(text)
    /\ \A j \in 1..Len(kw) : text[i + j - 1] = kw[j]
    /\ WordBoundary(text, i - 1)
    /\ WordBoundary(text, i + Len(kw) - 1)

\* contains_protected_keyword (safety.py:351-368): search of
\* \b(kw1|kw2|...)\b with re.IGNORECASE (safety.py:184-187)
contains_protected_keyword(text) ==
  \E kw \in ProtectedKeywords : \E i \in 1..Len(text) :
    /\ KeywordAt(text, kw, i)
    /\ WordBoundary(text, i - 1)
    /\ WordBoundary(text, i + Len(kw) - 1)

\* check_message_safety (safety.py:602-657): sender verdict first, then the
\* subject, then the snippet
check_message_safety(a, subject, snippet, rows, db_error) ==
  LET sender_result == check_sender_safety_of(a, rows, db_error) IN
  IF ~sender_result.is_safe THEN sender_result
  ELSE IF contains_protected_keyword(subject)
    THEN [is_safe |-> FALSE, check |-> "protected_keyword"]
  ELSE IF contains_protected_keyword(snippet)
    THEN [is_safe |-> FALSE, check |-> "protected_keyword"]
  ELSE [is_safe |-> TRUE, check |-> "safe"]

\* ------------------------------------------------ retention engine (retention.py)
Rule(t, p, a, pr, en) ==
  [rule_type |-> t, pattern |-> p, action |-> a, priority |-> pr, enabled |-> en]

\* _load_default_rules (retention.py:130-364), one rule of each priority
\* class and rule type, in the order of the source
DefaultRules ==
  << Rule("is_conversation", "true", "KEEP", 100, TRUE),
     Rule("subject_contains", "invoice", "KEEP", 95, TRUE),
     Rule("subject_contains", "appointment", "KEEP", 90, TRUE),
     Rule("sender_domain", "interac.ca", "KEEP", 98, TRUE),
     Rule("category", "promotions", "DELETE", 30, TRUE),
     Rule("subject_contains", "% off", "DELETE", 25, TRUE) >>

\* subjects of the fact tuples: the phrases the subject is made of
FactSubjects ==
  { << >>, <<"your", "invoice">>, <<"appointment", "% off">>, <<"% off">> }

\* `pattern in subject` on a subject made of phrases
SubjectContains(subject, pattern) == \E i \in 1..Len(subject) : subject[i] = pattern

FactDomains == {"shop.example", "interac.ca", "mail.interac.ca"}

\* str.endswith("." + pattern) on the domains above
EndsWithDot(domain, pattern) == domain = "mail.interac.ca" /\ pattern = "interac.ca"

EmailFacts ==
  [sender_domain : FactDomains, subject : FactSubjects,
   is_conversation : BOOLEAN, category : {"", "promotions"}]

\* _matches_rule (retention.py:408-472) for the rule types in use
matches_rule(email, rule) ==
  CASE rule.rule_type = "sender_domain" ->
         email.sender_domain = rule.pattern \/ EndsWithDot(email.sender_domain, rule.pattern)
    [] rule.rule_type = "subject_contains" -> SubjectContains(email.subject, rule.pattern)
    [] rule.rule_type = "is_conversation" -> email.is_conversation = (rule.pattern = "true")
    [] rule.rule_type = "category" -> email.category = rule.pattern
    [] OTHER -> FALSE

\* sorted(..., key=priority, reverse=True): a stable sort, so rules of equal
\* priority keep the order of the list
RECURSIVE SortByPriority(_)
SortByPriority(rs) ==
  IF rs = << >> THEN << >>
  ELSE LET top == CHOOSE i \in 1..Len(rs) :
                    /\ \A j \in 1..Len(rs) : rs[j].priority <= rs[i].priority
                    /\ \A j \in 1..(i - 1) : rs[j].priority < rs[i].priority
       IN  <<rs[top]>> \o
           SortByPriority([k \in 1..(Len(rs) - 1) |-> IF k < top THEN rs[k] ELSE rs[k + 1]])

\* first rule of a list that matches, the default result if none does
\* (retention.py:392-406)
FirstMatch(rs, email) ==
  IF \E i \in 1..Len(rs) : matches_rule(email, rs[i])
    THEN LET i == CHOOSE k \in 1..Len(rs) :
                    /\ matches_rule(email, rs[k])
                    /\ \A j \in 1..(k - 1) : ~matches_rule(email, rs[j])
         IN  [action |-> rs[i].action, priority |-> rs[i].priority, confidence |-> 100,
              matching_rule |-> <<rs[i].rule_type, rs[i].pattern>>]
    ELSE [action |-> "REVIEW", priority |-> 0, confidence |-> 50,
          matching_rule |-> <<"default", "">>]

\* evaluation that scans the enabled rules in list order, without the sort
evaluate_in_list_order(rs, email) ==
  FirstMatch(SelectSeq(rs, LAMBDA r : r.enabled), email)

\* RetentionEngine.evaluate (retention.py:366-406)
evaluate(rs, email) ==
  FirstMatch(SortByPriority(SelectSeq(rs, LAMBDA r : r.enabled)), email)

\* ------------------------------------------------------ scorer (scoring.py)
\* thread shapes as get_thread_info reports them (gmail_client.py:1027-1111)
NumThreads == 1
ThreadIds  == 1..NumThreads
Shape(mc, pc, replies) ==
  [message_count |-> mc, participant_count |-> pc, has_user_replies |-> replies]
ThreadShapes == {Shape(1, 1, FALSE), Shape(2, 1, FALSE), Shape(2, 2, FALSE), Shape(2, 2, TRUE)}
\* no entry: a shape get_thread_info never reports
NoInfo == Shape(0, 0, FALSE)

CATEGORY_PROMOTIONS_SCORE       == 30
CATEGORY_PRIMARY_SCORE          == -30
CATEGORY_IMPORTANT_SCORE        == -30
HEADER_LIST_UNSUBSCRIBE_SCORE   == 15
HEADER_PRECEDENCE_BULK_SCORE    == 10
HEADER_PRECEDENCE_NORMAL_SCORE  == -5
ENGAGEMENT_USER_SENT_SCORE      == -25
ENGAGEMENT_STARRED_SCORE        == -15
ENGAGEMENT_IMPORTANT_SCORE      == -10
ENGAGEMENT_NO_INTERACTION_SCORE == 10
KEYWORD_IMPORTANT_SCORE         == -20
KEYWORD_COMMERCIAL_SCORE        == 15
THREAD_CONVERSATION_SCORE       == -20
THREAD_SINGLE_SENDER_BULK_SCORE == 10
THRESHOLD_KEEP                  == 30
THRESHOLD_DELETE                == 70

\* the keywords of IMPORTANT_KEYWORDS and COMMERCIAL_KEYWORDS that occur in
\* the texts below (scoring.py:70-99)
IMPORTANT_KEYWORDS  == {"order", "password"}
COMMERCIAL_KEYWORDS == {"sale"}

\* label sets of a message
LabelSets ==
  { {}, {"CATEGORY_PROMOTIONS"}, {"CATEGORY_PROMOTIONS", "STARRED"},
    {"CATEGORY_PROMOTIONS", "IMPORTANT"}, {"CATEGORY_PERSONAL"} }

\* subject and snippet as the phrases they are made of
ScoredSubjects == { << >>, <<"sale">>, <<"sale", "order">>, <<"password">> }
ScoredSnippets == { << >>, <<"password">> }

\* _score_gmail_category (scoring.py:394-424)
score_gmail_category(label_ids) ==
  IF "CATEGORY_PROMOTIONS" \in label_ids THEN CATEGORY_PROMOTIONS_SCORE
  ELSE IF "CATEGORY_PERSONAL" \in label_ids THEN CATEGORY_PRIMARY_SCORE
  ELSE IF "IMPORTANT" \in label_ids THEN CATEGORY_IMPORTANT_SCORE
  ELSE 0

\* _score_headers (scoring.py:426-458)
score_headers(list_unsubscribe, precedence) ==
  (IF list_unsubscribe THEN HEADER_LIST_UNSUBSCRIBE_SCORE ELSE 0)
    + (IF precedence \in {"bulk", "list", "junk"} THEN HEADER_PRECEDENCE_BULK_SCORE
       ELSE IF precedence = "normal" THEN HEADER_PRECEDENCE_NORMAL_SCORE
       ELSE 0)

\* _score_engagement (scoring.py:460-498)
score_engagement(label_ids, thread_info) ==
  LET s == (IF thread_info.has_user_replies THEN ENGAGEMENT_USER_SENT_SCORE ELSE 0)
             + (IF "STARRED" \in label_ids THEN ENGAGEMENT_STARRED_SCORE ELSE 0)
             + (IF "IMPORTANT" \in label_ids THEN ENGAGEMENT_IMPORTANT_SCORE ELSE 0)
      any == thread_info.has_user_replies \/ "STARRED" \in label_ids
               \/ "IMPORTANT" \in label_ids
  IN  IF any THEN s ELSE ENGAGEMENT_NO_INTERACTION_SCORE

\* `kw in text` for text = subject + " " + snippet
TextContains(subject, snippet, kw) ==
  \/ \E i \in 1..Len(subject) : subject[i] = kw
  \/ \E i \in 1..Len(snippet) : snippet[i] = kw

\* keyword signal that does not count commercial keywords
score_keywords_important_only(subject, snippet) ==
  IF \E kw \in IMPORTANT_KEYWORDS : TextContains(subject, snippet, kw)
    THEN KEYWORD_IMPORTANT_SCORE
  ELSE 0

\* _score_keywords (scoring.py:500-540): important keywords first
score_keywords(subject, snippet) ==
  IF \E kw \in IMPORTANT_KEYWORDS : TextContains(subject, snippet, kw)
    THEN KEYWORD_IMPORTANT_SCORE
  ELSE IF \E kw \in COMMERCIAL_KEYWORDS : TextContains(subject, snippet, kw)
    THEN KEYWORD_COMMERCIAL_SCORE
  ELSE 0

\* conversation test shared by _score_thread_context (scoring.py:557),
\* is_conversation_thread (gmail_client.py:1150-1152) and
\* get_emails_with_thread_info (gmail_client.py:1228-1234)
IsConversationShape(info) ==
  info.message_count >= 2 /\ (info.has_user_replies \/ info.participant_count >= 2)

\* _score_thread_context (scoring.py:542-570)
score_thread_context(thread_info) ==
  IF IsConversationShape(thread_info) THEN THREAD_CONVERSATION_SCORE
  ELSE IF thread_info.message_count = 1 /\ thread_info.participant_count = 1
    THEN THREAD_SINGLE_SENDER_BULK_SCORE
  ELSE 0

\* int(((total + 100) / 200) * 100) clamped to 0..100 (scoring.py:275-276).
\* Every sum of signal scores is a multiple of 5, where the float expression
\* equals the integer quotient; below -100 both clamp to 0.
Normalize(total) ==
  LET q == (total + 100) \div 2
  IN  IF q < 0 THEN 0 ELSE IF q > 100 THEN 100 ELSE q

\* _classify_from_score (scoring.py:576-592)
classify_from_score(total_score) ==
  IF total_score < THRESHOLD_KEEP THEN "KEEP"
  ELSE IF total_score >= THRESHOLD_DELETE THEN "DELETE"
  ELSE "UNCERTAIN"

\* largest normalised score (scoring.py:276)
MaxScore == 100

\* round(x, 2) of the quotient num / den, in hundredths; none of the
\* quotients of _calculate_confidence lies halfway between two hundredths
Hundredths(num, den) == (200 * num + den) \div (2 * den)

\* _calculate_confidence (scoring.py:593-620), in hundredths
calculate_confidence(score) ==
  LET cap(c) == IF c > 100 THEN 100 ELSE c IN
  IF score < THRESHOLD_KEEP
    THEN cap(Hundredths(THRESHOLD_KEEP - score, THRESHOLD_KEEP))
  ELSE IF score >= THRESHOLD_DELETE
    THEN cap(Hundredths(score - THRESHOLD_DELETE, MaxScore - THRESHOLD_DELETE))
  ELSE LET distance_to_keep   == score - THRESHOLD_KEEP
           distance_to_delete == THRESHOLD_DELETE - score
           min_distance == IF distance_to_keep < distance_to_delete
                             THEN distance_to_keep ELSE distance_to_delete
       IN  Hundredths(2 * min_distance, THRESHOLD_DELETE - THRESHOLD_KEEP)

\* thread info used when the thread id is empty or the fetch failed
\* (scoring.py:670-678, 690-699)
MinimalThreadInfo == Shape(1, 1, FALSE)

\* the cache entry of a thread, NoInfo if absent (scoring.py:680-682)
CachedThreadInfo(cache, thread_id) == cache[thread_id]

\* _get_thread_info (scoring.py:660-699): what score_email works with, given
\* the cache, the mailbox and whether the fetch succeeds
GetThreadInfo(thread_id, cache, mailbox, fetch_ok) ==
  IF thread_id = 0 THEN MinimalThreadInfo
  ELSE IF CachedThreadInfo(cache, thread_id) # NoInfo THEN CachedThreadInfo(cache, thread_id)
  ELSE IF fetch_ok THEN mailbox[thread_id]
  ELSE MinimalThreadInfo

\* score_email (scoring.py:196-319) on the message facts and the thread info
\* it obtained: the signal breakdown, the normalised score, the class
ScoreWith(m, thread_info) ==
  LET breakdown ==
        [gmail_category |-> score_gmail_category(m.labels),
         headers        |-> score_headers(m.list_unsubscribe, m.precedence),
         engagement     |-> score_engagement(m.labels, thread_info),
         keywords       |-> score_keywords(m.subject, m.snippet),
         thread_context |-> score_thread_context(thread_info)]
      total == breakdown.gmail_category + breakdown.headers + breakdown.engagement
                 + breakdown.keywords + breakdown.thread_context
  IN  [classification |-> classify_from_score(Normalize(total)),
       total_score    |-> Normalize(total),
       confidence     |-> calculate_confidence(Normalize(total)),
       breakdown      |-> breakdown,
       thread_info    |-> thread_info,
       error          |-> FALSE]

\* the result built by the handler of score_email (scoring.py:307-319)
ErrorResult ==
  [classification |-> "UNCERTAIN",
   total_score    |-> 50,
   confidence     |-> 0,
   breakdown      |-> [gmail_category |-> 0, headers |-> 0, engagement |-> 0,
                       keywords |-> 0, thread_context |-> 0],
   thread_info    |-> NoInfo,
   error          |-> TRUE]

\* thread info get_emails_with_thread_info falls back to when the fetch
\* fails (gmail_client.py:1212-1221)
EnrichFallbackInfo == Shape(1, 0, FALSE)

\* is_conversation flag computed by get_emails_with_thread_info
\* (gmail_client.py:1205-1242)
is_conversation_flag(info, fetch_ok) ==
  IsConversationShape(IF fetch_ok THEN info ELSE EnrichFallbackInfo)

\* per-message filter of the deletion step (runner.py:632-674) on the
\* enriched message: kept if flagged as conversation, kept if the retention
\* verdict is KEEP, otherwise put on the delete list
RetentionFilter(is_conversation, sender_domain, subject, rs) ==
  IF is_conversation THEN "kept_conversation"
  ELSE IF evaluate(rs, [sender_domain |-> sender_domain, subject |-> subject,
                        is_conversation |-> is_conversation, category |-> ""]).action = "KEEP"
    THEN "kept_by_rule"
  ELSE "to_delete"

\* ------------------------------------------------------------------ state
VARIABLES
  runs,           \* cleanup_runs table:  run id -> row  (status "none" = no row)
  creq,           \* createRun requests past the active-run check, not yet inserted
  jobs,           \* APScheduler job store: run ids with a job waiting to fire
  worker,         \* job instance executing _run_cleanup_job for a run
  senderDb,       \* senders table: ids present
  unsubscribed,   \* senders rows with unsubscribed = TRUE
  filterCreated,  \* senders rows with filter_created = TRUE
  remoteUnsub,    \* senders that received an unsubscribe request that succeeded
  remoteFilters,  \* senders for which a Gmail filter exists
  trashed,        \* messages moved to trash
  actions,        \* cleanup_actions table: run id -> bag of rows
  discovered,     \* runs whose discovery step has completed
  mutated,        \* senders for which a mutating remote call was ever issued
  pauses,         \* accepted pause requests so far
  faults,         \* failures injected so far
  instances,      \* executor: job instances executing, per job id (run id)
  whitelist,      \* whitelist_domains table: the domains on the allow-list
  rules,          \* RetentionEngine.rules after the default rules: rules added since
  threads,        \* Gmail threads: thread id -> shape of the thread
  thread_cache,   \* EmailScorer._thread_cache: thread id -> shape, NoInfo if absent
  call            \* last call made to a decision function, with its result

runVars == <<runs, creq, jobs, worker, senderDb, unsubscribed, filterCreated,
             remoteUnsub, remoteFilters, trashed, actions, discovered, mutated, pauses, faults,
             instances>>

evalVars == <<whitelist, rules, threads, thread_cache, call>>

vars == <<runVars, evalVars>>

NoRow ==
  [status |-> "none", senders_total |-> 0, senders_processed |-> 0,
   emails_deleted |-> 0, bytes_freed_estimate |-> 0, progress_cursor |-> NoCursor,
   finished |-> FALSE, error |-> FALSE]

\* CleanupRun(status="pending") with the column defaults (models.py:44-70)
NewRow == [NoRow EXCEPT !.status = "pending"]

NoEffect == [sender |-> 0, action |-> "none", wanted |-> {}, applied |-> {}, advanced |-> FALSE]

\* CleanupAgent.__init__ (runner.py:70-83)
IdleWorker ==
  [pc |-> "none", mem |-> NoRow, dirty |-> {}, should_stop |-> FALSE,
   senders |-> << >>, index |-> 0, start |-> 0, resumed |-> FALSE,
   cursorAtStart |-> NoCursor, passSeq |-> << >>, passMut |-> {},
   recordedAtStart |-> {}, eff |-> NoEffect]

\* Session.commit: UPDATE of the dirty columns only
CommitRow(row, mem, dirty) ==
  [row EXCEPT
     !.status               = IF "status" \in dirty THEN mem.status ELSE @,
     !.finished             = IF "status" \in dirty THEN mem.finished ELSE @,
     !.error                = IF "status" \in dirty THEN mem.error ELSE @,
     !.senders_total        = IF "total" \in dirty THEN mem.senders_total ELSE @,
     !.senders_processed    = IF "progress" \in dirty THEN mem.senders_processed ELSE @,
     !.emails_deleted       = IF "progress" \in dirty THEN mem.emails_deleted ELSE @,
     !.bytes_freed_estimate = IF "progress" \in dirty THEN mem.bytes_freed_estimate ELSE @,
     !.progress_cursor      = IF "progress" \in dirty THEN mem.progress_cursor ELSE @]

\* senders with at least one cleanup_actions row of run r
Recorded(r) == {row.sender : row \in BagToSet(actions[r])}

Created   == {r \in RunIds : runs[r].status # "none"}
ActiveRuns == {r \in RunIds : runs[r].status \in ActiveStatuses}

RunTablesIdle ==
  /\ runs = [r \in RunIds |-> NoRow]
  /\ creq = 0
  /\ jobs = {}
  /\ worker = [r \in RunIds |-> IdleWorker]
  /\ unsubscribed = {}
  /\ filterCreated = {}
  /\ remoteUnsub = {}
  /\ remoteFilters = {}
  /\ trashed = {}
  /\ actions = [r \in RunIds |-> EmptyBag]
  /\ discovered = {}
  /\ mutated = {}
  /\ pauses = 0
  /\ faults = 0
  /\ instances = [r \in RunIds |-> 0]

\* a fresh database: no sender rows yet
RunsIdle == RunTablesIdle /\ senderDb = {}

NoCall == [op |-> "none", done |-> TRUE]

\* the decision functions before any call: catalogue allow-list, default
\* rules only, single-message threads, empty scorer cache
HarnessIdle ==
  /\ whitelist = WhitelistDomains
  /\ rules = << >>
  /\ threads = [t \in ThreadIds |-> Shape(1, 1, FALSE)]
  /\ thread_cache = [t \in ThreadIds |-> NoInfo]
  /\ call = NoCall

Init == RunsIdle /\ HarnessIdle

\* ---------------------------------------------------- control plane (runs.py)
\* _create_run_impl up to the active-run check (runs.py:36-47); a request
\* that finds an active run is rejected and changes nothing
CreateCheck ==
  /\ creq < NumClients
  /\ Cardinality(Created) + creq < MaxRuns
  /\ ActiveRuns = {}
  /\ creq' = creq + 1
  /\ UNCHANGED <<evalVars, instances, runs, jobs, worker, senderDb, unsubscribed, filterCreated,
                 remoteUnsub, remoteFilters, trashed, actions, discovered, mutated, pauses, faults>>

\* _create_run_impl from the insert on (runs.py:49-68)
CreateInsert ==
  /\ creq > 0
  /\ LET id == Cardinality(Created) + 1 IN
       /\ runs' = [runs EXCEPT ![id] = NewRow]
       /\ jobs' = ScheduleCleanupRun(id, "pending", jobs)
  /\ creq' = creq - 1
  /\ UNCHANGED <<evalVars, instances, worker, senderDb, unsubscribed, filterCreated,
                 remoteUnsub, remoteFilters, trashed, actions, discovered, mutated, pauses, faults>>

\* pause_run (runs.py:235-284)
PauseRun(r) ==
  /\ runs[r].status = "running"
  /\ pauses < MaxPauses
  /\ runs' = [runs EXCEPT ![r].status = "paused"]
  /\ pauses' = pauses + 1
  /\ UNCHANGED <<evalVars, instances, creq, jobs, worker, senderDb, unsubscribed, filterCreated,
                 remoteUnsub, remoteFilters, trashed, actions, discovered, mutated, faults>>

\* resume accepted for every run that has not ended
ResumeAllowedUnlessEnded(status) == status \notin TerminalStatuses

\* resume_run guard (runs.py:316)
ResumeAllowed(status) == status = "paused"

\* resume_run (runs.py:287-344): a request for a run that is not paused is
\* rejected with nothing written; otherwise the row is set to running and
\* committed before schedule_cleanup_run re-reads it
ResumeRun(r) ==
  /\ runs[r].status # "none"
  /\ IF ResumeAllowed(runs[r].status)
       THEN /\ runs' = [runs EXCEPT ![r].status = "running"]
            /\ jobs' = ScheduleCleanupRun(r, runs'[r].status, jobs)
       ELSE UNCHANGED <<runs, jobs>>
  /\ UNCHANGED <<evalVars, instances, creq, worker, senderDb, unsubscribed, filterCreated,
                 remoteUnsub, remoteFilters, trashed, actions, discovered, mutated, pauses, faults>>

\* _cancel_run_impl (runs.py:347-393)
CancelRun(r) ==
  /\ runs[r].status # "none"
  /\ CancelAllowed(runs[r].status)
  /\ runs' = [runs EXCEPT ![r].status = "cancelled", ![r].finished = TRUE]
  /\ UNCHANGED <<evalVars, instances, creq, jobs, worker, senderDb, unsubscribed, filterCreated,
                 remoteUnsub, remoteFilters, trashed, actions, discovered, mutated, pauses, faults>>

\* startOrResume: schedule_cleanup_run called for an existing run; for a
\* status other than pending or paused it raises and adds nothing
StartOrResume(r) ==
  /\ runs[r].status # "none"
  /\ jobs' = ScheduleCleanupRun(r, runs[r].status, jobs)
  /\ UNCHANGED <<evalVars, instances, runs, creq, worker, senderDb, unsubscribed, filterCreated,
                 remoteUnsub, remoteFilters, trashed, actions, discovered, mutated, pauses, faults>>


\* ------------------------------------------------ scheduler (scheduler.py)
WorkerActive(r) == worker[r].pc # "none"

\* job_defaults (scheduler.py:43-47)
max_instances == 1

\* an executor that admits a second instance of a job id
InstanceAllowedTwice(n) == n < max_instances + 1

\* the executor admits a job only below max_instances executing instances
\* of its id; otherwise the firing is refused
InstanceAllowed(n) == n < max_instances

\* discovery outcomes (the set of senders found in one pass) offered by a
\* small mailbox whose content changes between runs, and by the full one
SmallFinds == {{1}, {1, 2}}
FullFinds  == {Senders}

\* The job fires: _run_cleanup_job (scheduler.py:348-380) builds the agent,
\* initialize() loads the row, a paused run goes through CleanupAgent.resume
\* (runner.py:236-253), and run_cleanup sets status running and commits
\* (runner.py:130-133).  max_instances = 1 (scheduler.py:43-47): no second
\* instance of the same job id starts while one is executing.
JobStart(r) ==
  /\ r \in jobs
  /\ InstanceAllowed(instances[r])
  /\ instances' = [instances EXCEPT ![r] = @ + 1]
  /\ runs[r].status # "none"
  /\ jobs' = jobs \ {r}
  /\ runs' = [runs EXCEPT ![r].status = "running"]
  /\ worker' = [worker EXCEPT ![r] =
        [IdleWorker EXCEPT
           !.pc = IF runs[r].senders_total = 0 THEN "discover" ELSE "load",
           !.mem = runs'[r],
           !.resumed = (runs[r].status = "paused"),
           !.cursorAtStart = runs[r].progress_cursor,
           !.recordedAtStart = Recorded(r)]]
  /\ UNCHANGED <<evalVars, creq, senderDb, unsubscribed, filterCreated, remoteUnsub,
                 remoteFilters, trashed, actions, discovered, mutated, pauses, faults>>

\* The job fires while an instance of the same job id is still executing:
\* the executor refuses it and the one-shot job is removed from the store.
JobSkipped(r) ==
  /\ r \in jobs
  /\ ~InstanceAllowed(instances[r])
  /\ jobs' = jobs \ {r}
  /\ UNCHANGED <<evalVars, instances, runs, creq, worker, senderDb, unsubscribed, filterCreated, remoteUnsub,
                 remoteFilters, trashed, actions, discovered, mutated, pauses, faults>>

\* ------------------------------------------------ worker (runner.py)
\* _discover_senders (runner.py:273-301): discovery upserts the senders it
\* found and returns how many it found; the total is committed and the row
\* refreshed.
Discover(r, found) ==
  /\ worker[r].pc = "discover"
  /\ senderDb' = senderDb \cup found
  /\ runs' = [runs EXCEPT ![r].senders_total = Cardinality(found)]
  /\ worker' = [worker EXCEPT ![r].pc = "load", ![r].mem = runs'[r], ![r].dirty = {}]
  /\ discovered' = discovered \cup {r}
  /\ UNCHANGED <<evalVars, instances, creq, jobs, unsubscribed, filterCreated, remoteUnsub,
                 remoteFilters, trashed, actions, mutated, pauses, faults>>

\* _discover_senders when discovery raises (runner.py:303-311): the total
\* falls back to the number of sender rows
DiscoverFallback(r) ==
  /\ worker[r].pc = "discover"
  /\ faults < MaxFaults
  /\ faults' = faults + 1
  /\ runs' = [runs EXCEPT ![r].senders_total = Cardinality(senderDb)]
  /\ worker' = [worker EXCEPT ![r].pc = "load", ![r].mem = runs'[r], ![r].dirty = {}]
  /\ UNCHANGED <<evalVars, instances, creq, jobs, senderDb, unsubscribed, filterCreated, remoteUnsub,
                 remoteFilters, trashed, actions, discovered, mutated, pauses>>

\* _load_senders and the cursor read (runner.py:140-151)
LoadSenders(r) ==
  /\ worker[r].pc = "load"
  /\ LET start == StartIndex(worker[r].mem.progress_cursor) IN
       worker' = [worker EXCEPT ![r].pc = "loop",
                                ![r].senders = LoadSendersList(senderDb),
                                ![r].start = start,
                                ![r].index = start]
  /\ UNCHANGED <<evalVars, instances, runs, creq, jobs, senderDb, unsubscribed, filterCreated, remoteUnsub,
                 remoteFilters, trashed, actions, discovered, mutated, pauses, faults>>

\* the outer handler marks the row without the error details
FailRunStatusOnly(row) ==
  [row EXCEPT !.status = "failed"]

\* assignments of the outer handler (runner.py:216-218, scheduler.py:387-389)
FailRun(row) ==
  [row EXCEPT !.status = "failed", !.finished = TRUE, !.error = TRUE]

\* an exception outside the per-sender boundary, raised while the senders
\* are loaded or by the poll at the loop head (runner.py:214-220, then
\* scheduler.py:382-391): status failed, error message, finish time, and a
\* commit that also writes whatever else is dirty
OuterFailure(r) ==
  /\ \/ worker[r].pc = "load"
     \/ worker[r].pc = "loop" /\ worker[r].index < Len(worker[r].senders)
  /\ faults < MaxFaults
  /\ faults' = faults + 1
  /\ runs' = [runs EXCEPT ![r] = CommitRow(@, FailRun(worker[r].mem),
                                           worker[r].dirty \cup {"status"})]
  /\ worker' = [worker EXCEPT ![r] = IdleWorker]
  /\ instances' = [instances EXCEPT ![r] = @ - 1]
  /\ UNCHANGED <<evalVars, creq, jobs, senderDb, unsubscribed, filterCreated, remoteUnsub,
                 remoteFilters, trashed, actions, discovered, mutated, pauses>>

\* loop head (runner.py:154-158): past the last sender the loop ends;
\* otherwise _check_should_stop refreshes the row, which drops the
\* uncommitted counters and cursor, and the loop breaks on paused/cancelled
LoopHead(r) ==
  /\ worker[r].pc = "loop"
  /\ IF worker[r].index >= Len(worker[r].senders)
       THEN worker' = [worker EXCEPT ![r].pc = "final", ![r].eff = NoEffect]
       ELSE IF worker[r].should_stop
         THEN worker' = [worker EXCEPT ![r].pc = "final", ![r].eff = NoEffect]
         ELSE worker' = [worker EXCEPT
                ![r].mem = runs[r],
                ![r].dirty = {},
                ![r].eff = NoEffect,
                ![r].pc = IF ShouldStop(runs[r].status) THEN "final" ELSE "proc"]
  /\ UNCHANGED <<evalVars, instances, runs, creq, jobs, senderDb, unsubscribed, filterCreated, remoteUnsub,
                 remoteFilters, trashed, actions, discovered, mutated, pauses, faults>>


Outcomes == {"ok", "fail"}

\* unsubscribe requested whatever the unsubscribed flag says
UnsubscribeDueIgnoringFlag(s, flagged) == HasListUnsubscribe(s)

\* condition of step 3 of _process_sender (runner.py:432)
UnsubscribeDue(s, flagged) == HasListUnsubscribe(s) /\ s \notin flagged

\* condition of step 4 of _process_sender (runner.py:443)
FilterDue(s, created) == s \notin created

\* one loop iteration (runner.py:160-198): _process_sender (runner.py:369-477),
\* _log_action, the counter and cursor update and the periodic commit.
\*   uo  outcome of the unsubscribe request, if one is made
\*   fo  outcome of the filter creation, if one is made
\*   co  outcome of the commit at runner.py:460 ("fail": it raises)
ProcessSender(r, uo, fo, co) ==
  /\ worker[r].pc = "proc"
  /\ LET w   == worker[r]
         s   == w.senders[w.index + 1]
         skip == ShouldSkip(s)
         \* step 3 (runner.py:430-439)
         unsubAttempt == ~skip /\ UnsubscribeDue(s, unsubscribed)
         unsubOk      == unsubAttempt /\ uo = "ok"
         \* step 4 (runner.py:441-449, filters.py:148-218)
         filterAttempt == ~skip /\ FilterDue(s, filterCreated)
         filterExists  == filterAttempt /\ s \in remoteFilters
         filterCall    == filterAttempt /\ s \notin remoteFilters
         filterOk      == filterCall /\ fo = "ok"
         \* step 5 (runner.py:451-457)
         del    == IF skip THEN {} ELSE DeleteEmailsFromSenderWithRetention(s)
         \* commit of the sender row (runner.py:460)
         raised == ~skip /\ co = "fail"
         row    == [type   |-> ActionType(skip, raised),
                    sender |-> s,
                    email_count |-> IF raised THEN 0 ELSE Cardinality(del),
                    bytes_freed |-> IF raised THEN 0 ELSE Cardinality(del)]
         wanted  == (IF unsubAttempt THEN {"unsubscribe"} ELSE {})
                      \cup (IF filterCall THEN {"filter"} ELSE {})
                      \cup (IF del # {} THEN {"trash"} ELSE {})
         applied == (IF unsubOk THEN {"unsubscribe"} ELSE {})
                      \cup (IF filterOk THEN {"filter"} ELSE {})
                      \cup (IF del # {} THEN {"trash"} ELSE {})
         mem2   == [w.mem EXCEPT
                      !.senders_processed    = ProgressValue(w.index, w.start),
                      !.emails_deleted       = @ + row.email_count,
                      !.bytes_freed_estimate = @ + row.bytes_freed,
                      !.progress_cursor      = w.index + 1]
         dirty2 == w.dirty \cup {"progress"}
         commit == ~raised /\ CommitDue(w.index)
         committed == CommitRow(runs[r], mem2, dirty2)
         \* progress line logged after the periodic commit (runner.py:182-185):
         \* senders_processed / senders_total raises ZeroDivisionError inside
         \* the per-sender try, whose handler logs an error row (runner.py:187-196)
         divzero == commit /\ committed.senders_total = 0
         errRow  == [type |-> "error", sender |-> s, email_count |-> 0, bytes_freed |-> 0]
         failed == (IF unsubAttempt /\ uo = "fail" THEN 1 ELSE 0)
                     + (IF filterCall /\ fo = "fail" THEN 1 ELSE 0)
                     + (IF raised THEN 1 ELSE 0)
     IN
       \* an outcome is only drawn for a call that is made
       /\ unsubAttempt \/ uo = "ok"
       /\ filterCall \/ fo = "ok"
       /\ ~skip \/ co = "ok"
       /\ faults + failed <= MaxFaults
       /\ faults' = faults + failed
       /\ unsubscribed'  = unsubscribed \cup (IF unsubOk THEN {s} ELSE {})
       /\ remoteUnsub'   = remoteUnsub \cup (IF unsubOk THEN {s} ELSE {})
       /\ remoteFilters' = remoteFilters \cup (IF filterOk THEN {s} ELSE {})
       \* filter_created is set whenever the step ran (runner.py:445-447);
       \* create_mute_filter commits it itself on success, otherwise it
       \* reaches the store with the commit at runner.py:460
       /\ filterCreated' = filterCreated \cup
              (IF filterAttempt /\ (filterExists \/ filterOk \/ ~raised) THEN {s} ELSE {})
       /\ trashed' = trashed \cup del
       /\ mutated' = mutated \cup (IF wanted # {} THEN {s} ELSE {})
       /\ actions' = [actions EXCEPT ![r] =
                        IF divzero THEN (@ (+) SetToBag({row})) (+) SetToBag({errRow})
                                   ELSE @ (+) SetToBag({row})]
       /\ runs' = IF commit THEN [runs EXCEPT ![r] = committed] ELSE runs
       /\ worker' = [worker EXCEPT
            ![r].pc      = "loop",
            ![r].index   = w.index + 1,
            ![r].mem     = IF raised THEN w.mem ELSE IF commit THEN runs'[r] ELSE mem2,
            ![r].dirty   = IF raised THEN w.dirty ELSE IF commit THEN {} ELSE dirty2,
            ![r].passSeq = Append(w.passSeq, w.index),
            ![r].passMut = w.passMut \cup (IF wanted # {} THEN {s} ELSE {}),
            ![r].eff     = [sender |-> s, action |-> row.type, wanted |-> wanted,
                            applied |-> applied, advanced |-> ~raised]]
  /\ UNCHANGED <<evalVars, instances, creq, jobs, senderDb, discovered, pauses>>

\* completion decided with the stop flag inverted
CompletesWhenStopped(should_stop, status) == should_stop /\ status = "running"

\* condition of the final transition (runner.py:201)
Completes(should_stop, status) == ~should_stop /\ status = "running"

\* step 4 of run_cleanup (runner.py:200-212): completed only when the stop
\* flag is clear and the in-memory status is still running; then commit
Finalize(r) ==
  /\ worker[r].pc = "final"
  /\ LET w == worker[r]
         completes == Completes(w.should_stop, w.mem.status)
         mem2   == IF completes THEN [w.mem EXCEPT !.status = "completed", !.finished = TRUE]
                   ELSE w.mem
         dirty2 == IF completes THEN w.dirty \cup {"status"} ELSE w.dirty
     IN
       /\ runs' = [runs EXCEPT ![r] = CommitRow(@, mem2, dirty2)]
       /\ worker' = [worker EXCEPT ![r] = [IdleWorker EXCEPT !.resumed = w.resumed]]
       /\ instances' = [instances EXCEPT ![r] = @ - 1]
  /\ UNCHANGED <<evalVars, creq, jobs, senderDb, unsubscribed, filterCreated, remoteUnsub,
                 remoteFilters, trashed, actions, discovered, mutated, pauses, faults>>

Next ==
  \/ CreateCheck
  \/ CreateInsert
  \/ \E r \in RunIds : PauseRun(r)
  \/ \E r \in RunIds : ResumeRun(r)
  \/ \E r \in RunIds : CancelRun(r)
  \/ \E r \in RunIds : StartOrResume(r)
  \/ \E r \in RunIds : JobStart(r)
  \/ \E r \in RunIds : JobSkipped(r)
  \/ \E r \in RunIds : \E found \in SmallFinds : Discover(r, found)
  \/ \E r \in RunIds : DiscoverFallback(r)
  \/ \E r \in RunIds : LoadSenders(r)
  \/ \E r \in RunIds : OuterFailure(r)
  \/ \E r \in RunIds : LoopHead(r)
  \/ \E r \in RunIds : ProcessSender(r, "ok", "ok", "ok")
  \/ \E r \in RunIds : Finalize(r)

\* every run of a small mailbox whose remote calls succeed, concurrent
\* create requests included
Spec == Init /\ [][Next]_vars

\* one run over the full mailbox, remote calls and commits may fail
NextFull ==
  \/ CreateCheck /\ Created = {} /\ creq = 0
  \/ CreateInsert
  \/ PauseRun(1)
  \/ ResumeRun(1)
  \/ CancelRun(1)
  \/ StartOrResume(1)
  \/ JobStart(1)
  \/ JobSkipped(1)
  \/ \E found \in FullFinds : Discover(1, found)
  \/ DiscoverFallback(1)
  \/ LoadSenders(1)
  \/ OuterFailure(1)
  \/ LoopHead(1)
  \/ \E uo \in Outcomes, fo \in Outcomes, co \in Outcomes : ProcessSender(1, uo, fo, co)
  \/ Finalize(1)

SpecFull == Init /\ [][NextFull]_vars

\* ------------------------------------------ a run over senders found earlier
\* The senders table keeps the rows of earlier discoveries (discovery.py
\* upserts, nothing deletes them); this run's discovery scans a mailbox in
\* which it finds no sender.
RerunFinds == {{}}

InitRerun == RunTablesIdle /\ senderDb = Senders /\ HarnessIdle

NextRerun ==
  \/ CreateCheck /\ Created = {} /\ creq = 0
  \/ CreateInsert
  \/ PauseRun(1)
  \/ ResumeRun(1)
  \/ CancelRun(1)
  \/ StartOrResume(1)
  \/ JobStart(1)
  \/ JobSkipped(1)
  \/ \E found \in RerunFinds : Discover(1, found)
  \/ DiscoverFallback(1)
  \/ LoadSenders(1)
  \/ OuterFailure(1)
  \/ LoopHead(1)
  \/ \E uo \in Outcomes, fo \in Outcomes, co \in Outcomes : ProcessSender(1, uo, fo, co)
  \/ Finalize(1)

SpecRerun == InitRerun /\ [][NextRerun]_vars

\* --------------------------------------------------- guardrail (safety.py)
\* A request is drawn once, in the initial state; the step applies the
\* function to it.  db_error: the SELECT on whitelist_domains raises.
Snippets == {<< >>, <<"t", "a", "x">>}

SenderRequests ==
  [op : {"check_sender_safety"}, sender : Addresses, db_error : BOOLEAN, done : {FALSE}]

MessageRequests ==
  [op : {"check_message_safety"}, sender : Addresses, subject : Texts(MaxSubjectLen),
   snippet : Snippets, db_error : BOOLEAN, done : {FALSE}]

\* check_sender_safety(sender_email, db)
CheckSenderSafety ==
  /\ call.op = "check_sender_safety" /\ ~call.done
  /\ call' = [op |-> call.op, sender |-> call.sender, db_error |-> call.db_error,
              done |-> TRUE,
              result |-> check_sender_safety_of(call.sender, whitelist, call.db_error)]
  /\ UNCHANGED <<runVars, whitelist, rules, threads, thread_cache>>

\* check_message_safety(message, db)
CheckMessageSafety ==
  /\ call.op = "check_message_safety" /\ ~call.done
  /\ call' = [op |-> call.op, sender |-> call.sender, subject |-> call.subject,
              snippet |-> call.snippet, db_error |-> call.db_error, done |-> TRUE,
              sender_result |-> check_sender_safety_of(call.sender, whitelist, call.db_error),
              result |-> check_message_safety(call.sender, call.subject, call.snippet,
                                              whitelist, call.db_error)]
  /\ UNCHANGED <<runVars, whitelist, rules, threads, thread_cache>>

InitGuardrail ==
  /\ RunsIdle
  /\ whitelist \in SUBSET WhitelistChoices
  /\ rules = << >>
  /\ threads = [t \in ThreadIds |-> Shape(1, 1, FALSE)]
  /\ thread_cache = [t \in ThreadIds |-> NoInfo]
  /\ call \in SenderRequests \cup MessageRequests

NextGuardrail ==
  \/ CheckSenderSafety
  \/ CheckMessageSafety

SpecGuardrail == InitGuardrail /\ [][NextGuardrail]_vars

\* ------------------------------------------- retention engine (retention.py)
MaxAddedRules == 2    \* rules passed to add_rule over a behaviour

\* rules a caller adds: each matches the facts of a promotions message
\* from shop.example
CandidateRules ==
  { Rule(tp[1], tp[2], a, pr, en) :
      tp \in {<<"category", "promotions">>, <<"sender_domain", "shop.example">>},
      a \in {"KEEP", "DELETE"}, pr \in {90, 30}, en \in BOOLEAN }

EvaluateRequests == [op : {"evaluate"}, email : EmailFacts, done : {FALSE}]

\* RetentionEngine.add_rule (retention.py:474-482)
AddRule(rule) ==
  /\ call.op = "evaluate" /\ ~call.done
  /\ Len(rules) < MaxAddedRules
  /\ rules' = Append(rules, rule)
  /\ UNCHANGED <<runVars, whitelist, threads, thread_cache, call>>

\* RetentionEngine.evaluate(email)
Evaluate ==
  /\ call.op = "evaluate" /\ ~call.done
  /\ call' = [op |-> call.op, email |-> call.email, done |-> TRUE,
              result |-> evaluate(DefaultRules \o rules, call.email)]
  /\ UNCHANGED <<runVars, whitelist, rules, threads, thread_cache>>

InitRetention ==
  /\ RunsIdle
  /\ whitelist = WhitelistDomains
  /\ rules = << >>
  /\ threads = [t \in ThreadIds |-> Shape(1, 1, FALSE)]
  /\ thread_cache = [t \in ThreadIds |-> NoInfo]
  /\ call \in EvaluateRequests

NextRetention ==
  \/ \E rule \in CandidateRules : AddRule(rule)
  \/ Evaluate

SpecRetention == InitRetention /\ [][NextRetention]_vars

\* -------------------------------------- scorer and thread lookups (scoring.py)
\* message ids: "" is a message dict without an id (scoring.py:216-220)
MessageIds == {"", "m1"}

ScoreRequests ==
  [op : {"score_email"}, id : MessageIds, thread_id : {0} \cup ThreadIds, labels : LabelSets,
   list_unsubscribe : BOOLEAN, precedence : {"", "bulk", "normal"},
   subject : ScoredSubjects, snippet : ScoredSnippets, done : {FALSE}]

EnrichRequests ==
  [op : {"get_emails_with_thread_info"}, thread_id : ThreadIds,
   sender_domain : {"shop.example"}, subject : FactSubjects, done : {FALSE}]

\* a message arrives in a thread, or the user replies in it
Grows(a, b) ==
  /\ a # b
  /\ a.message_count <= b.message_count
  /\ a.participant_count <= b.participant_count
  /\ a.has_user_replies => b.has_user_replies

ThreadChanges(t, shape) ==
  /\ Grows(threads[t], shape)
  /\ threads' = [threads EXCEPT ![t] = shape]
  /\ UNCHANGED <<runVars, whitelist, rules, thread_cache, call>>

\* EmailScorer.score_email(message); fetch_ok: gmail_client.get_thread_info
\* returns.  The call keeps the result of the first evaluation of the
\* message, of the latest one, and what a scorer with an empty cache returns
\* for the latest one.
ScoreEmail(fetch_ok) ==
  /\ call.op = "score_email"
  /\ LET tid    == call.thread_id
         \* ValueError raised before the thread lookup (scoring.py:219-220),
         \* turned into the error result by the handler (scoring.py:307-319)
         raised == call.id = ""
         info   == GetThreadInfo(tid, thread_cache, threads, fetch_ok)
         result == IF raised THEN ErrorResult ELSE ScoreWith(call, info)
         fresh  == IF raised THEN ErrorResult
                   ELSE ScoreWith(call, GetThreadInfo(tid, [t \in ThreadIds |-> NoInfo],
                                                      threads, fetch_ok))
         lookup  == ~raised /\ tid # 0 /\ thread_cache[tid] = NoInfo
         fetched == lookup /\ fetch_ok
     IN
       \* the outcome of the fetch is only drawn when a fetch is made
       /\ lookup \/ fetch_ok
       /\ thread_cache' = IF fetched THEN [thread_cache EXCEPT ![tid] = threads[tid]]
                                      ELSE thread_cache
       /\ call' = [op |-> call.op, id |-> call.id,
                   thread_id |-> call.thread_id, labels |-> call.labels,
                   list_unsubscribe |-> call.list_unsubscribe,
                   precedence |-> call.precedence, subject |-> call.subject,
                   snippet |-> call.snippet, done |-> TRUE,
                   first  |-> IF call.done THEN call.first ELSE result,
                   fetch_ok |-> fetch_ok,
                   result |-> result,
                   fresh  |-> fresh]
  /\ UNCHANGED <<runVars, whitelist, rules, threads>>

\* EmailScorer.clear_cache (scoring.py:809-812)
ClearCache ==
  /\ call.op = "score_email"
  /\ thread_cache' = [t \in ThreadIds |-> NoInfo]
  /\ UNCHANGED <<runVars, whitelist, rules, threads, call>>

\* get_emails_with_thread_info for one message of the query, followed by
\* the per-message filter of the deletion step
GetEmailsWithThreadInfo(fetch_ok) ==
  /\ call.op = "get_emails_with_thread_info" /\ ~call.done
  /\ LET flag == is_conversation_flag(threads[call.thread_id], fetch_ok) IN
       call' = [op |-> call.op, thread_id |-> call.thread_id,
                sender_domain |-> call.sender_domain, subject |-> call.subject,
                done |-> TRUE, fetch_ok |-> fetch_ok,
                is_conversation |-> flag,
                disposition |-> RetentionFilter(flag, call.sender_domain, call.subject,
                                                DefaultRules \o rules)]
  /\ UNCHANGED <<runVars, whitelist, rules, threads, thread_cache>>

InitScorer ==
  /\ RunsIdle
  /\ whitelist = WhitelistDomains
  /\ rules = << >>
  /\ threads \in [ThreadIds -> ThreadShapes]
  /\ thread_cache = [t \in ThreadIds |-> NoInfo]
  /\ call \in ScoreRequests \cup EnrichRequests

NextScorer ==
  \/ \E t \in ThreadIds, shape \in ThreadShapes : ThreadChanges(t, shape)
  \/ \E ok \in BOOLEAN : ScoreEmail(ok)
  \/ ClearCache
  \/ \E ok \in BOOLEAN : GetEmailsWithThreadInfo(ok)

SpecScorer == InitScorer /\ [][NextScorer]_vars

\* ------------------------------------------------- confidence of a score
ConfidenceRequests ==
  [op : {"calculate_confidence"}, score : 0..MaxScore, done : {FALSE}]

\* EmailScorer._calculate_confidence(score)
CalculateConfidence ==
  /\ call.op = "calculate_confidence" /\ ~call.done
  /\ call' = [op |-> call.op, score |-> call.score, done |-> TRUE,
              confidence |-> calculate_confidence(call.score)]
  /\ UNCHANGED <<runVars, whitelist, rules, threads, thread_cache>>

InitConfidence ==
  /\ RunsIdle
  /\ whitelist = WhitelistDomains
  /\ rules = << >>
  /\ threads = [t \in ThreadIds |-> Shape(1, 1, FALSE)]
  /\ thread_cache = [t \in ThreadIds |-> NoInfo]
  /\ call \in ConfidenceRequests

NextConfidence == CalculateConfidence

SpecConfidence == InitConfidence /\ [][NextConfidence]_vars

\* --------------------------------------- refinement of UNCERTAIN results
RefineSenders    == {"news@shop.example", "ann@corp.com"}
PriorConfidences == {5, 100}          \* hundredths, as calculate_confidence gives
MaxResults       == 2

\* results classified UNCERTAIN by the scorer
UncertainResults ==
  [sender_email : RefineSenders, classification : {"UNCERTAIN"},
   confidence : PriorConfidences]

\* what the external classifier does for a sender: the call raises, the
\* answer is not JSON, or the answer is JSON; NotANumber stands for the
\* confidence of a JSON answer in which it is a string or null
NotANumber == -1

LlmOutcomes ==
  [kind : {"raises", "not_json"}] \cup
  [kind : {"answer"}, classification : {"KEEP", "DELETE"}, confidence : {90, NotANumber}]

\* the classifier did not classify the sender
Failed(available, cached, outcome) ==
  ~available \/ (~cached /\ outcome.kind \in {"raises", "not_json"})

\* the analysis of a sender cached by an earlier classification
CachedAnalysis == [classification |-> "DELETE", confidence |-> 90]

\* classifier whose answer on a failure is DELETE
classify_sender_default_delete(available, cached, outcome) ==
  IF ~available THEN [classification |-> "DELETE", confidence |-> 0]
  ELSE IF cached THEN CachedAnalysis
  ELSE IF outcome.kind = "answer"
    THEN [classification |-> outcome.classification, confidence |-> outcome.confidence]
  ELSE [classification |-> "DELETE", confidence |-> 0]

\* LLMClassifier.classify_sender (llm_classifier.py:98-184)
classify_sender(available, cached, outcome) ==
  IF ~available THEN [classification |-> "KEEP", confidence |-> 0]
  ELSE IF cached THEN CachedAnalysis
  ELSE IF outcome.kind = "answer"
    THEN [classification |-> outcome.classification, confidence |-> outcome.confidence]
  ELSE [classification |-> "KEEP", confidence |-> 0]

RefineRequests ==
  [op : {"refine_uncertain_with_llm"},
   results : UNION {[1..n -> UncertainResults] : n \in 1..MaxResults},
   sender_cache : SUBSET RefineSenders,
   done : {FALSE}]

\* EmailScorer.refine_uncertain_with_llm(uncertain_results, llm_classifier)
\* with classify_senders_batch: one analysis per sender of the results,
\* written over every result of that sender; formatting a confidence that is
\* not a number raises (scoring.py:787-789)
RefineUncertainWithLlm(available, outcomes) ==
  /\ call.op = "refine_uncertain_with_llm" /\ ~call.done
  /\ LET senders == {call.results[i].sender_email : i \in DOMAIN call.results}
         analysis(s) == classify_sender(available, s \in call.sender_cache, outcomes[s])
         raised == \E s \in senders : analysis(s).confidence = NotANumber
         failed == {s \in senders : Failed(available, s \in call.sender_cache, outcomes[s])}
     IN
       \* outcomes are only drawn for the senders that are asked about
       /\ \A s \in RefineSenders :
            (s \notin senders \/ ~available \/ s \in call.sender_cache)
              => outcomes[s] = [kind |-> "raises"]
       /\ call' = [op |-> call.op, results |-> call.results,
                   sender_cache |-> call.sender_cache, done |-> TRUE,
                   available |-> available, failed |-> failed, raised |-> raised,
                   refined |-> IF raised THEN << >>
                               ELSE [i \in DOMAIN call.results |->
                                       [sender_email   |-> call.results[i].sender_email,
                                        classification |-> analysis(call.results[i].sender_email).classification,
                                        confidence     |-> analysis(call.results[i].sender_email).confidence]]]
  /\ UNCHANGED <<runVars, whitelist, rules, threads, thread_cache>>

InitRefine ==
  /\ RunsIdle
  /\ whitelist = WhitelistDomains
  /\ rules = << >>
  /\ threads = [t \in ThreadIds |-> Shape(1, 1, FALSE)]
  /\ thread_cache = [t \in ThreadIds |-> NoInfo]
  /\ call \in RefineRequests

NextRefine ==
  \E available \in BOOLEAN, outcomes \in [RefineSenders -> LlmOutcomes] :
    RefineUncertainWithLlm(available, outcomes)

SpecRefine == InitRefine /\ [][NextRefine]_vars

\* ------------------------------------------ remote operations and retry
RemoteOps ==
  {"list_messages", "get_message", "batch_get_messages", "trash_messages",
   "send_message", "create_filter", "create_label"}

\* HTTP failures of a remote call: status, and for 403 the reason in the body
HttpFailures ==
  {"429", "403 rateLimitExceeded", "403 userRateLimitExceeded",
   "403 quotaExceeded", "403 insufficientPermissions", "500"}

\* the failures that are rate-limit or quota errors of the Gmail API
RateOrQuota ==
  {"429", "403 rateLimitExceeded", "403 userRateLimitExceeded", "403 quotaExceeded"}

\* number of leading attempts of a call that may meet the failure
MaxFailing == 5

\* exception class the except HttpError branch of an operation raises:
\* list_messages and get_message look for the text "rateLimitExceeded" in a
\* 403 body (gmail_client.py:276-284, 332-342), the other operations take
\* every 403 for a quota error (e.g. gmail_client.py:409-414, 479-485)
ErrorClass(op, failure) ==
  IF failure = "429" THEN "GmailRateLimitError"
  ELSE IF op \in {"list_messages", "get_message"}
    THEN IF failure = "403 rateLimitExceeded" THEN "GmailRateLimitError"
         ELSE IF failure = "500" THEN "GmailAPIError"
         ELSE "GmailAuthError"
  ELSE IF failure = "500" THEN "GmailAPIError"
  ELSE "GmailRateLimitError"

\* retry_if_exception_type of the @retry decorators
Retryable(class) == class \in {"GmailRateLimitError", "GmailQuotaExceededError"}

\* stop_after_attempt of the operation's @retry decorator; batch_get_messages
\* has no decorator (gmail_client.py:344)
StopAfterAttempt(op) ==
  IF op \in {"list_messages", "get_message"} THEN 5
  ELSE IF op = "batch_get_messages" THEN 1
  ELSE 3

RemoteRequests ==
  [op : RemoteOps, failure : HttpFailures, failing : 0..MaxFailing,
   attempts : {0}, status : {"pending"}, done : {FALSE}]

\* one attempt of the operation under its retry policy
Attempt ==
  /\ call.op \in RemoteOps /\ call.status = "pending"
  /\ LET n     == call.attempts + 1
         fails == n <= call.failing
         class == ErrorClass(call.op, call.failure)
         again == fails /\ Retryable(class) /\ n < StopAfterAttempt(call.op)
     IN  call' = [call EXCEPT !.attempts = n,
                              !.status = IF ~fails THEN "returned"
                                         ELSE IF again THEN "pending"
                                         ELSE "raised",
                              !.done = ~again]
  /\ UNCHANGED <<runVars, whitelist, rules, threads, thread_cache>>

InitRemote ==
  /\ RunsIdle
  /\ whitelist = WhitelistDomains
  /\ rules = << >>
  /\ threads = [t \in ThreadIds |-> Shape(1, 1, FALSE)]
  /\ thread_cache = [t \in ThreadIds |-> NoInfo]
  /\ call \in RemoteRequests

NextRemote == Attempt

SpecRemote == InitRemote /\ [][NextRemote]_vars

\* ------------------------------------------- progress cursor of a run
MaxListed == 3    \* senders in the loaded list

\* contents of cleanup_runs.progress_cursor, a nullable text column
\* (models.py): NULL, the empty string, text that is not JSON, JSON that is
\* a scalar or an array, and a JSON object without or with current_index
\* (an integer, true or false, a string, a fraction, null)
CursorTexts ==
  [form : {"null", "empty", "not_json", "json_scalar", "json_array", "json_object"},
   has : {FALSE}, kind : {"none"}, value : {0}]
  \cup [form : {"json_object"}, has : {TRUE}, kind : {"int"},
        value : -2 .. MaxListed + 1]
  \cup [form : {"json_object"}, has : {TRUE}, kind : {"bool"}, value : {0, 1}]
  \cup [form : {"json_object"}, has : {TRUE}, kind : {"str", "float", "null"},
        value : {0}]

\* "if self.run.progress_cursor:" (runner.py:145)
CursorPresent(c) == c.form \notin {"null", "empty"}

\* json.loads raises on text that is not JSON, .get raises on a value that
\* is not an object; both inside the try (runner.py:146-151)
ParseRaises(c) == c.form \in {"not_json", "json_scalar", "json_array"}

\* start_index after the block (runner.py:144-151); true and false are the
\* integers 1 and 0
start_index(c) ==
  IF ~CursorPresent(c) \/ ParseRaises(c) \/ ~c.has
  THEN [kind |-> "int", value |-> 0]
  ELSE [kind |-> IF c.kind = "bool" THEN "int" ELSE c.kind, value |-> c.value]

\* senders[start_index:] raises TypeError for a string or a fraction, and
\* enumerate(..., start=None) for null (runner.py:154), outside the inner
\* try: the outer handler fails the run
SliceRaises(si) == si.kind # "int"

\* position in the list of the first sender that senders[start_index:] yields
SliceOffset(si, n) ==
  IF si.value < 0
  THEN (IF n + si.value < 0 THEN 0 ELSE n + si.value)
  ELSE (IF si.value > n THEN n ELSE si.value)

CursorRequests ==
  [op : {"read_cursor"}, cursor : CursorTexts, n : 0 .. MaxListed, done : {FALSE}]

\* run_cleanup from the cursor read to the head of the loop
\* (runner.py:143-154, 214-220)
ReadCursor ==
  /\ call.op = "read_cursor" /\ ~call.done
  /\ LET si == start_index(call.cursor)
          failed == SliceRaises(si)
     IN call' = [op |-> call.op, cursor |-> call.cursor, n |-> call.n,
                 done |-> TRUE,
                 status |-> IF failed THEN "failed" ELSE "running",
                 offset |-> IF failed THEN 0 ELSE SliceOffset(si, call.n)]
  /\ UNCHANGED <<runVars, whitelist, rules, threads, thread_cache>>

InitCursor ==
  /\ RunsIdle
  /\ whitelist = WhitelistDomains
  /\ rules = << >>
  /\ threads = [t \in ThreadIds |-> Shape(1, 1, FALSE)]
  /\ thread_cache = [t \in ThreadIds |-> NoInfo]
  /\ call \in CursorRequests

NextCursor == ReadCursor

SpecCursor == InitCursor /\ [][NextCursor]_vars



\* ============================================================ properties
Safe(s) == check_sender_safety(s).is_safe

\* cursor index a pass started from, as it stood in the store
CursorIndex(w) == IF w.cursorAtStart = NoCursor THEN 0 ELSE w.cursorAtStart

PassIndices(w) == {w.passSeq[i] : i \in 1..Len(w.passSeq)}

AllowedTransitions ==
  { <<"pending", "running">>, <<"running", "paused">>, <<"paused", "running">>,
    <<"running", "completed">>, <<"running", "cancelled">>, <<"running", "failed">> }

\* C1: a run's status changes only along pending->running, running->paused,
\* paused->running, running->completed, running->cancelled, running->failed,
\* whichever actor writes it.
C1_OnlyAllowedTransitions ==
  [][\A r \in RunIds :
       (runs[r].status # "none" /\ runs'[r].status # runs[r].status)
         => <<runs[r].status, runs'[r].status>> \in AllowedTransitions]_vars

\* C2: once a run's status is completed, cancelled or failed it never
\* changes again.
C2_TerminalIsFinal ==
  [][\A r \in RunIds :
       runs[r].status \in TerminalStatuses => runs'[r].status = runs[r].status]_vars

\* C3: at every moment at most one run is pending, running or paused.
C3_AtMostOneActive ==
  Cardinality(ActiveRuns) <= 1

\* C4: in a pass entered through resume with the stored cursor at index k,
\* every sender processed has index >= k, none is processed twice, no
\* mutating call is issued for a sender at index 0..k-1, and when the pass
\* has gone through the list the senders processed are exactly k..n-1.
C4_ResumeFromCursor ==
  \A r \in RunIds :
    LET w == worker[r]
        k == CursorIndex(w)
        n == Len(w.senders)
    IN  (w.resumed /\ w.pc \in {"loop", "proc", "final"}) =>
          /\ \A i \in 1..Len(w.passSeq) : w.passSeq[i] >= k
          /\ \A i, j \in 1..Len(w.passSeq) : i # j => w.passSeq[i] # w.passSeq[j]
          /\ w.passMut \subseteq {w.senders[i + 1] : i \in k..(n - 1)}
          /\ (w.pc = "final" /\ w.mem.status = "running") => PassIndices(w) = k..(n - 1)

\* a resumed pass that started from a cursor k > 0, with a mutating call on
\* record for an earlier sender, has gone through the rest of the list
C4_Witness ==
  \E r \in RunIds :
    LET w == worker[r] IN
      /\ w.resumed /\ w.cursorAtStart > 0
      /\ w.pc = "final" /\ w.mem.status = "running"
      /\ w.passSeq # << >>
      /\ \E i \in 0..(w.cursorAtStart - 1) : w.senders[i + 1] \in mutated

\* C5: after a pause and a resume, no sender whose action row was recorded
\* before the resume is processed again.
C5_NoRepeatAfterResume ==
  \A r \in RunIds :
    LET w == worker[r] IN
      w.resumed =>
        \A i \in 1..Len(w.passSeq) : w.senders[w.passSeq[i] + 1] \notin w.recordedAtStart

\* C6: the cursor advances past a sender only when the effects attempted
\* for it were applied all or not at all.
C6_EffectsAllOrNothing ==
  \A r \in RunIds :
    LET e == worker[r].eff IN
      e.advanced => (e.applied = e.wanted \/ e.applied = {})

\* C7: a sender the guardrail marks protected gets a skip row and no
\* mutating remote call.
C7_ProtectedSkipped ==
  /\ \A r \in RunIds :
       LET e == worker[r].eff IN
         (e.sender # 0 /\ ~Safe(e.sender)) =>
           /\ e.action = "skip"
           /\ e.wanted = {}
           /\ \E row \in BagToSet(actions[r]) : row.sender = e.sender /\ row.type = "skip"
  /\ \A r \in RunIds : \A row \in BagToSet(actions[r]) : ~Safe(row.sender) => row.type = "skip"
  /\ \A s \in mutated : Safe(s)

\* the bank sender of the end-to-end scenario has just been processed
C7_Witness ==
  \E r \in RunIds :
    /\ worker[r].eff.sender # 0
    /\ Email(worker[r].eff.sender) = "alerts@chase.com"
    /\ check_sender_safety(worker[r].eff.sender).check = "important_sender"

\* C8: no conversation-flagged message is ever moved to trash, and the
\* per-message filter of the deletion step selects none for the sender it
\* has just handled.
C8_ConversationsKept ==
  /\ \A m \in trashed : ~IsConversation(m)
  /\ \A r \in RunIds :
       worker[r].eff.sender # 0 =>
         \A m \in EmailsToDelete(worker[r].eff.sender) : ~IsConversation(m)

\* the deletion step has run for a sender that has an old conversation-
\* flagged message, and the message is still in the mailbox
C8_Witness ==
  \E r \in RunIds :
    /\ worker[r].eff.action = "delete"
    /\ \E m \in Messages :
         /\ m[1] = worker[r].eff.sender
         /\ IsConversation(m)
         /\ AgeDays(m) > StandardDays
         /\ m \notin trashed

\* C9: the stored senders_processed of a run never decreases.
C9_ProcessedMonotone ==
  [][\A r \in RunIds : runs'[r].senders_processed >= runs[r].senders_processed]_vars

\* a run that went through a per-sender failure and a pause has been resumed
\* and has finished, its stored count at the length of the list
C9_Witness ==
  \E r \in RunIds :
    /\ worker[r].resumed
    /\ worker[r].pc = "none"
    /\ runs[r].status = "completed"
    /\ runs[r].senders_processed = NumSenders
    /\ runs[r].progress_cursor = NumSenders
    /\ \E row \in BagToSet(actions[r]) : row.type = "error"

\* C10: once discovery has completed for a run, senders_processed never
\* exceeds senders_total.
C10_ProcessedWithinTotal ==
  \A r \in discovered : runs[r].senders_processed <= runs[r].senders_total


C13_ResumeRestartsLoop ==
  [][\A r \in RunIds :
       (runs[r].status = "paused" /\ runs'[r].status = "running" /\ worker'[r] = worker[r])
         => (r \in jobs' \/ WorkerActive(r))]_vars


\* C14: a request that is not made by the worker turns a run to running
\* only from paused, and no such request changes the counters or the
\* cursor: a resume request for a run in any other status writes nothing.
C14_ResumeOnlyFromPaused ==
  [][\A r \in RunIds :
       (runs[r].status # "none" /\ worker'[r] = worker[r]) =>
         /\ (runs'[r].status = "running" /\ runs[r].status # "running")
              => runs[r].status = "paused"
         /\ runs'[r].senders_total = runs[r].senders_total
         /\ runs'[r].senders_processed = runs[r].senders_processed
         /\ runs'[r].emails_deleted = runs[r].emails_deleted
         /\ runs'[r].progress_cursor = runs[r].progress_cursor]_vars

\* a run with a stored cursor is in a status from which resume is rejected
C14_Witness ==
  \E r \in RunIds :
    /\ runs[r].status \in {"running", "completed", "cancelled", "failed"}
    /\ ~ResumeAllowed(runs[r].status)
    /\ runs[r].progress_cursor # NoCursor
    /\ runs[r].senders_processed > 0


\* C15: the stored status becomes paused or cancelled only when no sender
\* is in flight: a request made while the worker is processing a sender
\* takes effect on the status once that sender is done, not before.
C15_StopAfterInFlightSender ==
  [][\A r \in RunIds :
       (runs'[r].status \in {"paused", "cancelled"} /\ runs'[r].status # runs[r].status)
         => worker[r].pc # "proc"]_vars


C17_ExhaustedListCompletes ==
  [][\A r \in RunIds :
       ( /\ worker[r].pc = "final" /\ worker'[r].pc = "none"
         /\ worker[r].index >= Len(worker[r].senders)
         /\ pauses = 0
         /\ runs[r].status = "running" )
         => (runs'[r].status = "completed" /\ runs'[r].finished)]_vars

\* an uninterrupted run has gone through the whole list and is completed
C17_Witness ==
  \E r \in RunIds :
    /\ pauses = 0
    /\ runs[r].status = "completed" /\ runs[r].finished
    /\ runs[r].senders_processed = NumSenders
    /\ ~WorkerActive(r)


\* C18: the stored status is set to running by the worker only; no request
\* of the control plane writes running.
C18_OnlyWorkerSetsRunning ==
  [][\A r \in RunIds :
       (runs'[r].status = "running" /\ runs[r].status # "running")
         => (worker'[r] # worker[r] /\ WorkerActive(r)')]_vars


\* C19: for a run whose stored status is running no step adds a job and no
\* step that is not the worker's own changes the counters or the cursor:
\* startOrResume on a running run changes nothing, however often repeated.
C19_StartOrResumeNoOpWhenRunning ==
  [][\A r \in RunIds :
       runs[r].status = "running" =>
         /\ (r \in jobs' => r \in jobs)
         /\ (worker'[r] = worker[r] =>
               /\ runs'[r].status \in {"running", "paused", "cancelled"}
               /\ runs'[r].senders_total = runs[r].senders_total
               /\ runs'[r].senders_processed = runs[r].senders_processed
               /\ runs'[r].progress_cursor = runs[r].progress_cursor)]_vars

\* a running run with a worker in its loop, progress stored and no job
\* waiting: the state in which startOrResume is refused
C19_Witness ==
  \E r \in RunIds :
    /\ runs[r].status = "running"
    /\ worker[r].pc = "proc"
    /\ r \notin jobs
    /\ runs[r].progress_cursor # NoCursor


\* C20: at no time are two job instances executing the loop of the same
\* run, whatever the interleaving of create, pause, resume, cancel and job
\* scheduling.
C20_SingleWorkerPerRun ==
  \A r \in RunIds :
    /\ instances[r] <= 1
    /\ WorkerActive(r) <=> instances[r] = 1

\* a job is waiting to fire for a run whose worker is still in its loop
C20_Witness ==
  \E r \in RunIds :
    /\ r \in jobs
    /\ worker[r].pc = "proc"
    /\ instances[r] = 1

\* C21: for every sender whose domain is on the user allow-list the
\* sender-level guardrail returns protected, whatever the pattern check, the
\* protected-domain check or anything else would say.
C21_AllowListAlwaysProtected ==
  (call.op = "check_sender_safety" /\ call.done
     /\ extract_domain(call.sender) \in whitelist)
    => ~call.result.is_safe

\* C22: a guardrail check that could not complete because of an internal
\* error answers protected, never safe.
C22_ErrorMeansProtected ==
  (call.op \in {"check_sender_safety", "check_message_safety"} /\ call.done
     /\ call.db_error)
    => ~call.result.is_safe

\* maximal runs of word characters of a text, lower-cased
WordsOf(text) ==
  { [j \in 1..(e - b + 1) |-> LowerChar(text[b + j - 1])] :
      <<b, e>> \in { p \in (1..Len(text)) \X (1..Len(text)) :
                       /\ p[1] <= p[2]
                       /\ \A k \in p[1]..p[2] : IsWordChar(text[k])
                       /\ (p[1] = 1 \/ ~IsWordChar(text[p[1] - 1]))
                       /\ (p[2] = Len(text) \/ ~IsWordChar(text[p[2] + 1])) } }

\* C24: every message whose subject contains a protected keyword as a whole
\* word is protected by the message-level check, also when the sender-level
\* check answers safe.
C24_SubjectKeywordProtects ==
  (call.op = "check_message_safety" /\ call.done
     /\ ProtectedKeywords \cap WordsOf(call.subject) # {})
    => ~call.result.is_safe

C24_Witness ==
  /\ call.op = "check_message_safety" /\ call.done
  /\ call.sender_result.is_safe
  /\ call.snippet = << >>
  /\ call.subject = <<"T", "a", "x", " ">>
  /\ call.result = [is_safe |-> FALSE, check |-> "protected_keyword"]

\* positions of the list DefaultRules \o rules that hold an enabled rule
\* matching the facts of the call
MatchingRules ==
  LET all == DefaultRules \o rules
  IN  {i \in 1..Len(all) : all[i].enabled /\ matches_rule(call.email, all[i])}

\* C28 as stated: of two enabled rules matching the same facts, one of
\* priority 90 and one of priority 30, evaluate returns the action of the
\* priority-90 rule, in whichever order the two were added.
C28_Priority90Wins ==
  (call.op = "evaluate" /\ call.done) =>
    LET all == DefaultRules \o rules IN
    \A i, j \in MatchingRules :
      (all[i].priority = 90 /\ all[j].priority = 30)
        => call.result.action = all[i].action

\* C28, amended: the priority-90 rule's action is returned provided no other
\* enabled matching rule sorts before it, i.e. none of higher priority and
\* none of priority 90 that stands earlier in the list.
C28_Priority90WinsUnlessOutranked ==
  (call.op = "evaluate" /\ call.done) =>
    LET all == DefaultRules \o rules IN
    \A i, j \in MatchingRules :
      ( /\ all[i].priority = 90 /\ all[j].priority = 30
        /\ \A k \in MatchingRules :
              all[k].priority < 90 \/ (all[k].priority = 90 /\ k >= i) )
        => /\ call.result.action = all[i].action
           /\ call.result.priority = 90

C28_Witness ==
  /\ call.op = "evaluate" /\ call.done
  /\ Len(rules) = 2
  /\ rules[1] = Rule("category", "promotions", "DELETE", 30, TRUE)
  /\ rules[2] = Rule("sender_domain", "shop.example", "KEEP", 90, TRUE)
  /\ call.email = [sender_domain |-> "shop.example", subject |-> <<"% off">>,
                   is_conversation |-> FALSE, category |-> "promotions"]
  /\ call.result.action = "KEEP"

\* C23: when the thread lookup that decides whether a message is part of a
\* conversation fails, the message is kept (protected or left undecided); it
\* is never put among the messages to delete.
C23_FailedLookupNeverDeletable ==
  (call.op = "get_emails_with_thread_info" /\ call.done /\ ~call.fetch_ok)
    => call.disposition # "to_delete"

\* C29: evaluating the same message facts again gives the same
\* classification and reasoning: every evaluation returns what an evaluation
\* with no earlier call (an empty thread cache) returns for the same message
\* in the same mailbox.
C29_NoEarlierEvaluationChangesResult ==
  (call.op = "score_email" /\ call.done) => call.result = call.fresh

\* thread facts of the message of the call as the mailbox holds them
ActualThreadInfo ==
  IF call.thread_id = 0 THEN MinimalThreadInfo ELSE threads[call.thread_id]

\* promotions category, no engagement, a commercial keyword in the subject
PromotionalCase ==
  /\ call.op = "score_email" /\ call.done
  /\ "CATEGORY_PROMOTIONS" \in call.labels
  /\ call.labels \cap {"STARRED", "IMPORTANT"} = {}
  /\ ~ActualThreadInfo.has_user_replies
  /\ \E kw \in COMMERCIAL_KEYWORDS : \E i \in 1..Len(call.subject) : call.subject[i] = kw
  /\ call.id # ""

\* C30 as stated: a promotions message with no engagement and a commercial
\* keyword in the subject is classified DELETE, whatever its header and
\* thread-context signals are.
C30_PromotionsCommercialDeleted ==
  PromotionalCase => call.result.classification = "DELETE"

\* C30, amended: such a message is classified DELETE provided subject and
\* snippet hold no important keyword and the message is not both in a
\* conversation thread and without List-Unsubscribe and bulk Precedence.
C30_PromotionsCommercialDeletedUnlessConversation ==
  ( /\ PromotionalCase
    /\ ~\E kw \in IMPORTANT_KEYWORDS : TextContains(call.subject, call.snippet, kw)
    /\ ~( /\ IsConversationShape(ActualThreadInfo)
          /\ ~call.list_unsubscribe
          /\ call.precedence \notin {"bulk", "list", "junk"} ) )
    => call.result.classification = "DELETE"

\* a promotions message with a commercial subject in a conversation thread,
\* carrying List-Unsubscribe, has been scored DELETE
C30_Witness ==
  /\ PromotionalCase
  /\ call.snippet = << >> /\ call.subject = <<"sale">>
  /\ call.list_unsubscribe /\ call.precedence = "normal"
  /\ call.thread_id # 0
  /\ call.result.thread_info = Shape(2, 2, FALSE)
  /\ call.result.breakdown.thread_context = THREAD_CONVERSATION_SCORE
  /\ call.result.classification = "DELETE"

\* C25: each time a sender is processed within a run exactly one
\* cleanup_actions row is appended for that sender, never none and never two.
C25_OneRowPerProcessing ==
  [][\A r \in RunIds :
       (worker[r].pc = "proc" /\ worker'[r].pc # "proc") =>
         \E row \in BagToSet(actions'[r]) :
           /\ row.sender = worker[r].senders[worker[r].index + 1]
           /\ actions'[r] = actions[r] (+) SetToBag({row})]_vars

\* messages of a sender that the deletion step is to trash under the
\* aggressive window: older than the window, not in a conversation, not kept
\* by a retention rule
DueForTrash(s) ==
  {m \in Messages : /\ m[1] = s
                    /\ AgeDays(m) > AggressiveDays
                    /\ ~IsConversation(m)
                    /\ MessageLevelRetention(m) # "KEEP"}

\* C26: processing a sender with has_list_unsubscribe that no guardrail and
\* no retention rule protects, not handled before and with every remote call
\* succeeding, attempts the unsubscribe, creates the mute filter and moves
\* the sender's messages older than the short threshold to the trash.
C26_UnsubscribeFilterTrash ==
  [][\A r \in RunIds :
       LET s == worker[r].senders[worker[r].index + 1]
           e == worker'[r].eff
       IN (/\ worker[r].pc = "proc" /\ worker'[r].pc # "proc"
           /\ HasListUnsubscribe(s)
           /\ s \notin unsubscribed /\ s \notin filterCreated
           /\ e.action = "delete" /\ e.wanted = e.applied)
          => /\ s \in remoteUnsub'
             /\ s \in remoteFilters'
             /\ DueForTrash(s) \subseteq trashed']_vars

SecurityKeywords == {"password"}

\* C31: every message with a user reply in its thread and a security keyword
\* in the subject is classified KEEP by the scorer, whatever its category
\* and its other signals are.
C31_ReplyAndSecurityKeywordKept ==
  ( /\ call.op = "score_email" /\ call.done
    /\ call.result.thread_info.has_user_replies
    /\ \E i \in 1..Len(call.subject) : call.subject[i] \in SecurityKeywords )
    => call.result.classification = "KEEP"

\* middle of the UNCERTAIN band
UncertainMidpoint == (THRESHOLD_KEEP + THRESHOLD_DELETE) \div 2

\* C32: the confidence is 1.0 at the scores 0 and 100, and no score has a
\* lower confidence than the scores next to the midpoint of the UNCERTAIN
\* band have.
C32_ConfidenceLowestNearMidpoint ==
  (call.op = "calculate_confidence" /\ call.done) =>
    /\ call.score \in {0, MaxScore} => call.confidence = 100
    /\ \E m \in (UncertainMidpoint - 1)..(UncertainMidpoint + 1) :
         call.confidence >= calculate_confidence(m)

\* C33: a failure while a message is scored, be it an exception in
\* score_email or a thread lookup that fails, gives the message the
\* classification UNCERTAIN with confidence 0, never DELETE.
C33_FailureMeansUncertain ==
  ( /\ call.op = "score_email" /\ call.done
    /\ (call.result.error \/ ~call.fetch_ok) )
    => /\ call.result.classification = "UNCERTAIN"
       /\ call.result.confidence = 0

MaxAttempts == 5

\* C35: a remote operation is attempted again when, and only when, it failed
\* with a rate-limit or quota error, and never more often than a fixed
\* number of times.
C35_RetryOnlyOnRateLimit ==
  call.op \in RemoteOps =>
    /\ call.attempts <= MaxAttempts
    /\ (call.status = "raised" /\ call.attempts = 1) => call.failure \notin RateOrQuota
    /\ call.attempts > 1 => call.failure \in RateOrQuota

\* C36: processing a sender whose unsubscribed flag is set makes no
\* unsubscribe request, and processing a sender whose filter_created flag is
\* set makes no filter request, also when the sender is processed again
\* after a resume.
C36_NoRepeatedUnsubscribeOrFilter ==
  [][\A r \in RunIds :
       (worker[r].pc = "proc" /\ worker'[r].pc # "proc") =>
         LET s == worker[r].senders[worker[r].index + 1] IN
           /\ s \in unsubscribed =>
                "unsubscribe" \notin worker'[r].eff.wanted /\ remoteUnsub' = remoteUnsub
           /\ s \in filterCreated =>
                "filter" \notin worker'[r].eff.wanted /\ remoteFilters' = remoteFilters]_vars

\* in a pass started by a resume, a sender with unsubscribe capability whose
\* two flags are set has been processed again, and nothing was requested
C36_Witness ==
  \E r \in RunIds :
    LET e == worker[r].eff IN
      /\ worker[r].resumed
      /\ e.action = "delete"
      /\ e.sender \in worker[r].recordedAtStart
      /\ HasListUnsubscribe(e.sender)
      /\ e.sender \in unsubscribed /\ e.sender \in filterCreated
      /\ e.wanted = {}

\* C39: filter_created is set for a sender only if a mute filter for that
\* sender exists in the mailbox, created by the run or found there.
C39_FilterFlagMeansFilter ==
  \A s \in filterCreated : s \in remoteFilters

KeyTier(s) ==
  IF is_junk_sender(s)
  THEN (IF HasListUnsubscribe(s) THEN 1 ELSE 2)
  ELSE (IF HasListUnsubscribe(s) THEN 3 ELSE 4)

C38_BadCursorStartsAtZero ==
  (call.op = "read_cursor" /\ call.done) =>
    LET c == call.cursor
        wellFormed == /\ c.form = "json_object" /\ c.has /\ c.kind = "int"
                      /\ c.value \in 0 .. call.n
    IN  ~wellFormed => (call.status # "failed" /\ call.offset = 0)

====
